---- MODULE Spec2Model ----
(***************************************************************************)
(* Model of the identity-reconciliation merge in                           *)
(* onemed1a-frontend/src/app/collection/books/[id]/page.js (MediaPage):    *)
(* the external discovery list and the user's tracked records are merged   *)
(* into one display list.                                                  *)
(*                                                                         *)
(* JavaScript values are modelled as follows.                              *)
(*  - identifiers, statuses and types are strings; the string `undefined`  *)
(*    below is the absent value (JS undefined/null), which is different    *)
(*    from the text "undefined" that String(undefined) produces;           *)
(*  - titles, dates, years and ratings are tagged values (Str, Num, NaN,   *)
(*    Undef); text is a sequence of one-character strings so that slice,   *)
(*    trim, toLowerCase, Number and String are computed, not assumed.      *)
(*    The alphabet is digits, letters, blank and "-" (no ".", "e", "x",    *)
(*    "+": Number() is exact on this alphabet).                            *)
(***************************************************************************)
EXTENDS Integers, Sequences, FiniteSets, TLC

(* ---------------------------------------------------------------- bounds *)
MaxExternal == 2
MaxTracked == 2
MaxRerenders == 1

(* ------------------------------------------------------------- JS values *)
undefined == "<undefined>"

\* a null or absent id (userId, statusId, the id of a response)
nullId == "<null>"

\* a null entry of a list, or a null `media` of a tracked record
null == [null |-> TRUE]

Str(s) == [t |-> "str", s |-> s, n |-> 0]
Num(n) == [t |-> "num", s |-> <<>>, n |-> n]
NaN == [t |-> "nan", s |-> <<>>, n |-> 0]
Undef == [t |-> "undef", s |-> <<>>, n |-> 0]

\* JS truthiness of a tagged value
Truthy(v) ==
  CASE v.t = "str" -> v.s # <<>>
    [] v.t = "num" -> v.n # 0
    [] OTHER -> FALSE

\* a || b on tagged values
OrElse(a, b) == IF Truthy(a) THEN a ELSE b

\* a ?? b on tagged values
Nullish(a, b) == IF a.t = "undef" THEN b ELSE a

\* truthiness of an identifier (absent or empty string is falsy)
TruthyId(x) == x # undefined /\ x # ""

\* String(x) on an identifier
StringId(x) == IF x = undefined THEN "undefined" ELSE x

Digits == {"0", "1", "2", "3", "4", "5", "6", "7", "8", "9"}

DigitVal(c) ==
  CASE c = "0" -> 0 [] c = "1" -> 1 [] c = "2" -> 2 [] c = "3" -> 3
    [] c = "4" -> 4 [] c = "5" -> 5 [] c = "6" -> 6 [] c = "7" -> 7
    [] c = "8" -> 8 [] c = "9" -> 9

DigitChar(d) ==
  CASE d = 0 -> "0" [] d = 1 -> "1" [] d = 2 -> "2" [] d = 3 -> "3"
    [] d = 4 -> "4" [] d = 5 -> "5" [] d = 6 -> "6" [] d = 7 -> "7"
    [] d = 8 -> "8" [] d = 9 -> "9"

\* String.prototype.slice(0, 4)
Slice4(s) == SubSeq(s, 1, IF Len(s) < 4 THEN Len(s) ELSE 4)

RECURSIVE TrimLeft(_)
TrimLeft(s) == IF s # <<>> /\ Head(s) = " " THEN TrimLeft(Tail(s)) ELSE s

RECURSIVE TrimRight(_)
TrimRight(s) ==
  IF s # <<>> /\ s[Len(s)] = " " THEN TrimRight(SubSeq(s, 1, Len(s) - 1)) ELSE s

\* String.prototype.trim()
Trim(s) == TrimRight(TrimLeft(s))

LowerChar(c) ==
  CASE c = "D" -> "d" [] c = "U" -> "u" [] c = "N" -> "n" [] c = "E" -> "e"
    [] c = "Z" -> "z" [] c = "T" -> "t" [] c = "I" -> "i" [] c = "L" -> "l"
    [] OTHER -> c

\* String.prototype.toLowerCase() on text
ToLowerCase(s) == [i \in 1..Len(s) |-> LowerChar(s[i])]

RECURSIVE DigitsValue(_)
DigitsValue(s) ==
  IF s = <<>> THEN 0
  ELSE 10 * DigitsValue(SubSeq(s, 1, Len(s) - 1)) + DigitVal(s[Len(s)])

AllDigits(s) == \A i \in 1..Len(s) : s[i] \in Digits

\* Number(text): surrounding blanks are ignored, the empty text is 0,
\* a (signed) run of digits is its value, anything else is NaN
Number(s) ==
  LET t == Trim(s) IN
    IF t = <<>> THEN Num(0)
    ELSE IF AllDigits(t) THEN Num(DigitsValue(t))
    ELSE IF Head(t) = "-" /\ Len(t) > 1 /\ AllDigits(Tail(t))
      THEN Num(0 - DigitsValue(Tail(t)))
    ELSE NaN

RECURSIVE NatToText(_)
NatToText(n) ==
  IF n < 10 THEN <<DigitChar(n)>>
  ELSE Append(NatToText(n \div 10), DigitChar(n % 10))

\* String(v) on a tagged value
StringOf(v) ==
  CASE v.t = "str" -> v.s
    [] v.t = "num" -> IF v.n < 0 THEN <<"-">> \o NatToText(0 - v.n) ELSE NatToText(v.n)
    [] v.t = "nan" -> <<"N", "a", "N">>
    [] OTHER -> <<"u", "n", "d", "e", "f", "i", "n", "e", "d">>

\* type strings are atoms; toLowerCase on them is tabulated
LowerType(t) ==
  CASE t = "MOVIE" -> "movie" [] t = "TV" -> "tv"
    [] t = "MUSIC" -> "music" [] t = "BOOKS" -> "books"
    [] OTHER -> t

(* ----------------------------------------------------- page-level helpers *)
typeMap(key) ==
  CASE key = "movie" -> "MOVIE" [] key = "tv" -> "TV"
    [] key = "music" -> "MUSIC" [] key = "books" -> "BOOKS"
    [] OTHER -> undefined

\* the route of the page being rendered
mediaTypeKey == "movie"
wantedType == typeMap(mediaTypeKey)

toYear(dateStr) == IF Truthy(dateStr) THEN Number(Slice4(StringOf(dateStr))) ELSE Undef

TMDB_IMG_BASE == "https://image.tmdb.org/t/p/"

\* withSize on a relative path (paths in the model start with "/" and are
\* never full URLs); null is the empty tuple
withSize(path, size) == IF ~TruthyId(path) THEN <<>> ELSE <<TMDB_IMG_BASE, size, path>>

pickCover(posterPath, backdropPath) ==
  IF withSize(posterPath, "w342") # <<>> THEN withSize(posterPath, "w342")
  ELSE IF withSize(backdropPath, "w780") # <<>> THEN withSize(backdropPath, "w780")
  ELSE <<"/next.svg">>

(* ------------------------------------------------------- insertion-ordered Map *)
MapHas(m, k) == \E i \in 1..Len(m) : m[i].k = k
MapIndex(m, k) == CHOOSE i \in 1..Len(m) : m[i].k = k
MapGet(m, k) == m[MapIndex(m, k)].v
\* Map.prototype.set: an existing key keeps its position, a new key is appended
MapSet(m, k, v) ==
  IF MapHas(m, k) THEN [m EXCEPT ![MapIndex(m, k)] = [k |-> k, v |-> v]]
  ELSE Append(m, [k |-> k, v |-> v])

(* ------------------------------------------------------------ input pools *)
Dune == <<"D", "u", "n", "e">>
duneSpaced == <<" ", "d", "U", "N", "E", " ">>
Tenet == <<"T", "e", "n", "e", "t">>
Untitled == <<"U", "n", "t", "i", "t", "l", "e", "d">>
d2021 == <<"2", "0", "2", "1", "-", "0", "5", "-", "0", "1">>
d1999 == <<"1", "9", "9", "9", "-", "1", "2", "-", "3", "1">>
dMalformed == <<"a", "b", "c", "d", "-", "0", "1">>

\* one record of the discovery feed
Ext(mediaId, externalMediaId, id, title, releaseDate, rating, posterUrl) ==
  [mediaId |-> mediaId, externalMediaId |-> externalMediaId, id |-> id,
   title |-> title, type |-> "MOVIE", releaseDate |-> releaseDate,
   rating |-> rating, posterUrl |-> posterUrl, backdropUrl |-> undefined]

\* one user-media-status record
Ums(id, status, rating, mediaId, externalMediaId, title, type, releaseDate) ==
  [id |-> id, status |-> status, rating |-> rating,
   media |-> [mediaId |-> mediaId, externalMediaId |-> externalMediaId,
              title |-> title, type |-> type, releaseDate |-> releaseDate,
              posterUrl |-> undefined, backdropUrl |-> undefined]]

ExternalPool ==
  { Ext("7", undefined, undefined, Str(Dune), Str(d2021), Num(4), "/a.jpg"),
    Ext("8", "9", undefined, Str(duneSpaced), Str(d1999), Undef, undefined),
    Ext(undefined, undefined, "9", Str(Dune), Undef, Num(0), "/c.jpg"),
    Ext(undefined, "6", undefined, Str(Tenet), Str(dMalformed), Num(3), undefined),
    Ext("7", undefined, undefined, Str(Dune), Str(d1999), Undef, "/e.jpg"),
    Ext(undefined, undefined, undefined, Undef, Undef, Undef, undefined) }

TrackedPool ==
  { Ums("r1", "WATCHING", Undef, "7", undefined, Undef, "MOVIE", Undef),
    Ums("r2", "COMPLETED", Num(5), "9", "8", Str(duneSpaced), "MOVIE", Str(d1999)),
    Ums("r3", "PLAN_TO_WATCH", Undef, undefined, "9", Str(Tenet), "MOVIE", Str(d2021)),
    Ums("9", "COMPLETED", Num(1), undefined, undefined, Str(duneSpaced), "MOVIE", Str(d2021)),
    Ums("7", "WATCHING", Undef, undefined, undefined, Str(Dune), "MOVIE", Str(d1999)),
    Ums("r6", "COMPLETED", Num(2), undefined, undefined, Str(Dune), "MOVIE", Str(dMalformed)),
    Ums("r7", "WATCHING", Num(3), "6", "5", Str(Dune), "MOVIE", Undef),
    Ums("r8", "DROPPED", Num(4), "6", undefined, Undef, "MOVIE", Str(d2021)),
    Ums("r9", "COMPLETED", Num(5), "7", undefined, Str(Dune), "TV", Str(d2021)) }

SeqsUpTo(S, n) == UNION { [1..k -> S] : k \in 0..n }

(* ------------------------------------------------------------------ state *)
VARIABLES
  external,       \* input: the discovery feed
  raw,            \* input: the user's tracked records
  pc,             \* position in MediaPage: "build", "merge", "done"
  externalItems,  \* array built by external.map
  externalMap,    \* Map canonical id -> external item
  aliasMap,       \* Map identifier -> canonical id
  itemsMap,       \* Map canonical id -> display item
  cur,            \* index into byWantedType of the record the loop is at
  resolved,       \* per processed record: the branch taken and the id it got
  items,          \* the final display list
  calls,          \* how many earlier calls of MediaPage have returned
  previous,       \* the display list the previous call returned
  userId,         \* StarRating prop: the logged-in user, or nullId
  disabled,       \* StarRating prop
  rating,         \* StarRating state: the rating shown
  loading,        \* StarRating state
  statusId,       \* StarRating state: id of the backend record, or nullId
  error,          \* StarRating state: the alert text, "" for none
  saveTimer,      \* saveTimer.current: id of the last timer set, 0 for null
  prevRatingRef,  \* prevRatingRef.current
  timers,         \* debounce timers set and neither fired nor cleared
  inflight,       \* requests sent and not yet answered
  backend,        \* the user's status record for this media on the backend
  changes,        \* how many rating changes the user has made
  route           \* the route the router was last pushed to

pageVars == <<external, raw, pc, externalItems, externalMap, aliasMap, itemsMap,
              cur, resolved, items, calls, previous>>

starVars == <<userId, disabled, rating, loading, statusId, error, saveTimer,
              prevRatingRef, timers, inflight, backend, changes, route>>

vars == <<pageVars, starVars>>

\* raw.filter((ums) => ums?.media?.type === wantedType)
byWantedType ==
  SelectSeq(raw, LAMBDA ums : ums # null /\ ums.media # null /\ ums.media.type = wantedType)

(* -------------------------------------------------- external.map((m) => ...) *)
idKey(m) ==
  IF TruthyId(m.mediaId) THEN m.mediaId
  ELSE IF TruthyId(m.externalMediaId) THEN m.externalMediaId
  ELSE m.id

typeLower(m) == IF TruthyId(m.type) THEN LowerType(m.type) ELSE ""

externalItem(m) ==
  LET canonical == StringId(idKey(m)) IN
    [id |-> canonical,
     title |-> Nullish(m.title, Str(Untitled)),
     type |-> typeLower(m),
     year |-> OrElse(Str(Slice4(OrElse(m.releaseDate, Str(<<>>)).s)), Undef),
     rating |-> OrElse(m.rating, Undef),
     coverUrl |-> pickCover(m.posterUrl, m.backdropUrl),
     href |-> <<typeLower(m), canonical>>,
     status |-> undefined]

\* the aliases one external record registers, applied to the alias map
aliasesOfExternal(am, m) ==
  LET canonical == StringId(idKey(m))
      a1 == IF TruthyId(m.externalMediaId)
              THEN MapSet(am, StringId(m.externalMediaId), canonical) ELSE am
  IN IF TruthyId(m.mediaId) THEN MapSet(a1, StringId(m.mediaId), canonical) ELSE a1

RECURSIVE buildExternalMap(_, _)
buildExternalMap(ext, n) ==
  IF n = 0 THEN <<>>
  ELSE MapSet(buildExternalMap(ext, n - 1), externalItem(ext[n]).id, externalItem(ext[n]))

RECURSIVE buildAliasMap(_, _)
buildAliasMap(ext, n) ==
  IF n = 0 THEN <<>> ELSE aliasesOfExternal(buildAliasMap(ext, n - 1), ext[n])

\* variant of buildItemsMap in which itemsMap is one Map shared by all calls
\* instead of a new Map per call
RECURSIVE buildItemsMap_shared(_, _)
buildItemsMap_shared(its, n) ==
  IF n = 0 THEN itemsMap ELSE MapSet(buildItemsMap_shared(its, n - 1), its[n].id, its[n])

\* for (const it of externalItems) itemsMap.set(String(it.id), { ...it })
RECURSIVE buildItemsMap(_, _)
buildItemsMap(its, n) ==
  IF n = 0 THEN <<>> ELSE MapSet(buildItemsMap(its, n - 1), its[n].id, its[n])

\* the media grid page renders no StarRating
StarUnmounted ==
  /\ userId = nullId
  /\ disabled = FALSE
  /\ rating = 0
  /\ loading = FALSE
  /\ statusId = nullId
  /\ error = ""
  /\ saveTimer = 0
  /\ prevRatingRef = 0
  /\ timers = {}
  /\ inflight = <<>>
  /\ backend = [id |-> nullId, rating |-> 0]
  /\ changes = 0
  /\ route = "media"

Init ==
  /\ external \in SeqsUpTo(ExternalPool, MaxExternal)
  /\ raw \in SeqsUpTo(TrackedPool, MaxTracked)
  /\ pc = "build"
  /\ externalItems = <<>>
  /\ externalMap = <<>>
  /\ aliasMap = <<>>
  /\ itemsMap = <<>>
  /\ cur = 1
  /\ resolved = <<>>
  /\ items = <<>>
  /\ calls = 0
  /\ previous = <<>>
  /\ StarUnmounted

BuildExternal ==
  /\ pc = "build"
  /\ \A i \in 1..Len(external) : external[i] # null
  /\ externalItems' = [i \in 1..Len(external) |-> externalItem(external[i])]
  /\ externalMap' = buildExternalMap(external, Len(external))
  /\ aliasMap' = buildAliasMap(external, Len(external))
  /\ itemsMap' = buildItemsMap(externalItems', Len(external))
  /\ pc' = "merge"
  /\ UNCHANGED <<external, raw, cur, resolved, items, calls, previous>>
  /\ UNCHANGED starVars

(* ------------------------------------------- for (const ums of byWantedType) *)
umsInternalOf(ums) ==
  IF TruthyId(ums.media.mediaId) THEN StringId(ums.media.mediaId) ELSE undefined

umsExternalOf(ums) ==
  IF TruthyId(ums.media.externalMediaId) THEN StringId(ums.media.externalMediaId)
  ELSE undefined

\* variant of resolveRule without the direct internal-id rule
resolveRule_noInternalFirst(im, am, ums) ==
  LET umsInternal == umsInternalOf(ums)
      umsExternal == umsExternalOf(ums)
  IN IF umsExternal # undefined /\ MapHas(am, umsExternal) THEN 2
     ELSE IF umsExternal # undefined /\ MapHas(im, umsExternal) THEN 3
     ELSE IF umsInternal # undefined /\ MapHas(am, umsInternal) THEN 4
     ELSE 0

\* variant of resolveRule that looks the external id up in the entry map
\* before the alias map
resolveRule_entryBeforeAlias(im, am, ums) ==
  LET umsInternal == umsInternalOf(ums)
      umsExternal == umsExternalOf(ums)
  IN IF umsInternal # undefined /\ MapHas(im, umsInternal) THEN 1
     ELSE IF umsExternal # undefined /\ MapHas(im, umsExternal) THEN 3
     ELSE IF umsExternal # undefined /\ MapHas(am, umsExternal) THEN 2
     ELSE IF umsInternal # undefined /\ MapHas(am, umsInternal) THEN 4
     ELSE 0

\* which of the four identifier rules applies first (0: none)
resolveRule(im, am, ums) ==
  LET umsInternal == umsInternalOf(ums)
      umsExternal == umsExternalOf(ums)
  IN IF umsInternal # undefined /\ MapHas(im, umsInternal) THEN 1
     ELSE IF umsExternal # undefined /\ MapHas(am, umsExternal) THEN 2
     ELSE IF umsExternal # undefined /\ MapHas(im, umsExternal) THEN 3
     ELSE IF umsInternal # undefined /\ MapHas(am, umsInternal) THEN 4
     ELSE 0

\* the canonical id the identifier rules give (undefined: none, JS null)
resolveCanonical(im, am, ums) ==
  LET r == resolveRule(im, am, ums) IN
    CASE r = 1 -> umsInternalOf(ums)
      [] r = 2 -> MapGet(am, umsExternalOf(ums))
      [] r = 3 -> umsExternalOf(ums)
      [] r = 4 -> MapGet(am, umsInternalOf(ums))
      [] OTHER -> undefined

EmptyItem ==
  [id |-> undefined, title |-> Undef, type |-> undefined, year |-> Undef,
   rating |-> Undef, coverUrl |-> <<>>, href |-> <<>>, status |-> undefined]

umsTypeLower(ums) == IF TruthyId(ums.media.type) THEN LowerType(ums.media.type) ELSE ""

\* `/collection/${(m.type || "").toLowerCase()}/${m.mediaId ?? ums.id}`
umsHref(ums) ==
  <<umsTypeLower(ums),
    StringId(IF ums.media.mediaId # undefined THEN ums.media.mediaId ELSE ums.id)>>

\* variant of mergeOnto that takes the base from externalMap before itemsMap
mergeOnto_externalBaseFirst(im, em, key, ums) ==
  LET base == IF MapHas(em, key) THEN MapGet(em, key)
              ELSE IF MapHas(im, key) THEN MapGet(im, key)
              ELSE EmptyItem
  IN MapSet(im, key, [base EXCEPT !.status = ums.status,
                                  !.rating = Nullish(ums.rating, base.rating),
                                  !.href = umsHref(ums)])

\* itemsMap.set(key, { ...base, status, rating, href })
mergeOnto(im, em, key, ums) ==
  LET base == IF MapHas(im, key) THEN MapGet(im, key)
              ELSE IF MapHas(em, key) THEN MapGet(em, key)
              ELSE EmptyItem
  IN MapSet(im, key, [base EXCEPT !.status = ums.status,
                                  !.rating = Nullish(ums.rating, base.rating),
                                  !.href = umsHref(ums)])

\* variant of registerAliases that registers the external id only
registerAliases_externalOnly(am, ums, key) ==
  IF umsExternalOf(ums) # undefined THEN MapSet(am, umsExternalOf(ums), key) ELSE am

\* if (umsExternal) aliasMap.set(umsExternal, key); if (umsInternal) ...
registerAliases(am, ums, key) ==
  LET a1 == IF umsExternalOf(ums) # undefined THEN MapSet(am, umsExternalOf(ums), key) ELSE am
  IN IF umsInternalOf(ums) # undefined THEN MapSet(a1, umsInternalOf(ums), key) ELSE a1

titleKeyOf(ums) == ToLowerCase(Trim(OrElse(ums.media.title, Str(<<>>)).s))

\* variant of yearKeyOf in which a date whose year is not a number gives no
\* year key at all
yearKeyOf_malformedIsAbsent(ums) ==
  IF toYear(ums.media.releaseDate).t = "num" THEN toYear(ums.media.releaseDate) ELSE Undef

yearKeyOf(ums) ==
  OrElse(toYear(ums.media.releaseDate),
         IF Truthy(ums.media.releaseDate)
           THEN Str(Slice4(StringOf(ums.media.releaseDate))) ELSE Undef)

\* the test of one external item in the fallback loop
fallbackMatches(extItem, titleKey, yearKey) ==
  LET extTitle == ToLowerCase(Trim(OrElse(extItem.title, Str(<<>>)).s))
      extYear == OrElse(extItem.year, Undef)
  IN /\ extTitle # <<>>
     /\ extTitle = titleKey
     /\ \/ yearKey.t = "undef"
        \/ extYear.t = "undef"
        \/ StringOf(extYear) = StringOf(yearKey)

\* variant of fallbackCanonicalOf that passes over external items an earlier
\* record has already been merged into
fallbackCanonicalOf_skipClaimed(em, ums) ==
  LET titleKey == titleKeyOf(ums)
      yearKey == yearKeyOf(ums)
      hits == { i \in 1..Len(em) :
                  /\ fallbackMatches(em[i].v, titleKey, yearKey)
                  /\ \A k \in 1..Len(resolved) : resolved[k].key # em[i].k }
  IN IF titleKey # <<>> /\ hits # {}
       THEN em[CHOOSE i \in hits : \A j \in hits : i <= j].k
       ELSE undefined

\* the first entry of externalMap, in Map order, that passes the test
fallbackCanonicalOf(em, ums) ==
  LET titleKey == titleKeyOf(ums)
      yearKey == yearKeyOf(ums)
      hits == { i \in 1..Len(em) : fallbackMatches(em[i].v, titleKey, yearKey) }
  IN IF titleKey # <<>> /\ hits # {}
       THEN em[CHOOSE i \in hits : \A j \in hits : i <= j].k
       ELSE undefined

\* variant of newKeyOf that prefers the external id to the internal id
newKeyOf_externalFirst(ums) ==
  StringId(IF TruthyId(ums.media.externalMediaId) THEN ums.media.externalMediaId
           ELSE IF TruthyId(ums.media.mediaId) THEN ums.media.mediaId
           ELSE ums.id)

newKeyOf(ums) ==
  StringId(IF TruthyId(ums.media.mediaId) THEN ums.media.mediaId
           ELSE IF TruthyId(ums.media.externalMediaId) THEN ums.media.externalMediaId
           ELSE ums.id)

newItemOf(ums) ==
  [id |-> newKeyOf(ums),
   title |-> Nullish(ums.media.title, Str(<<>>)),
   coverUrl |-> pickCover(ums.media.posterUrl, ums.media.backdropUrl),
   year |-> toYear(ums.media.releaseDate),
   type |-> umsTypeLower(ums),
   status |-> ums.status,
   rating |-> ums.rating,
   href |-> umsHref(ums)]

\* the record the loop is at
ums == byWantedType[cur]

\* if (canonical) { ... }: an identifier rule resolved the record
MergeResolved ==
  /\ pc = "merge"
  /\ cur <= Len(byWantedType)
  /\ LET canonical == resolveCanonical(itemsMap, aliasMap, ums) IN
       /\ TruthyId(canonical)
       /\ itemsMap' = mergeOnto(itemsMap, externalMap, canonical, ums)
       /\ aliasMap' = registerAliases(aliasMap, ums, canonical)
       /\ resolved' = Append(resolved,
            [rule |-> resolveRule(itemsMap, aliasMap, ums), key |-> canonical])
  /\ cur' = cur + 1
  /\ UNCHANGED <<external, raw, pc, externalItems, externalMap, items, calls, previous>>
  /\ UNCHANGED starVars

\* else { ... if (fallbackCanonical) { ... } }: title+year match
MergeFallback ==
  /\ pc = "merge"
  /\ cur <= Len(byWantedType)
  /\ ~TruthyId(resolveCanonical(itemsMap, aliasMap, ums))
  /\ LET fallbackCanonical == fallbackCanonicalOf(externalMap, ums) IN
       /\ TruthyId(fallbackCanonical)
       /\ itemsMap' = mergeOnto(itemsMap, externalMap, fallbackCanonical, ums)
       /\ aliasMap' = registerAliases(aliasMap, ums, fallbackCanonical)
       /\ resolved' = Append(resolved, [rule |-> 5, key |-> fallbackCanonical])
  /\ cur' = cur + 1
  /\ UNCHANGED <<external, raw, pc, externalItems, externalMap, items, calls, previous>>
  /\ UNCHANGED starVars

\* else { tracked-only item }
MergeTrackedOnly ==
  /\ pc = "merge"
  /\ cur <= Len(byWantedType)
  /\ ~TruthyId(resolveCanonical(itemsMap, aliasMap, ums))
  /\ ~TruthyId(fallbackCanonicalOf(externalMap, ums))
  /\ itemsMap' = MapSet(itemsMap, newKeyOf(ums), newItemOf(ums))
  /\ aliasMap' = registerAliases(aliasMap, ums, newKeyOf(ums))
  /\ resolved' = Append(resolved, [rule |-> 6, key |-> newKeyOf(ums)])
  /\ cur' = cur + 1
  /\ UNCHANGED <<external, raw, pc, externalItems, externalMap, items, calls, previous>>
  /\ UNCHANGED starVars

\* the items of externalItems, each replaced by its itemsMap entry
RECURSIVE externalFirst(_, _, _)
externalFirst(its, im, n) ==
  IF n = 0 THEN <<>>
  ELSE IF MapHas(im, its[n].id)
    THEN Append(externalFirst(its, im, n - 1), MapGet(im, its[n].id))
  ELSE externalFirst(its, im, n - 1)

\* the itemsMap entries whose key is not in externalMap, in Map order
trackedOnlyTail(im, em) ==
  LET kept == SelectSeq(im, LAMBDA e : ~MapHas(em, e.k))
  IN [i \in 1..Len(kept) |-> kept[i].v]

\* Final items: external ordering first, then tracked-only items appended
Flatten ==
  /\ pc = "merge"
  /\ cur > Len(byWantedType)
  /\ items' = externalFirst(externalItems, itemsMap, Len(externalItems))
                \o trackedOnlyTail(itemsMap, externalMap)
  /\ pc' = "done"
  /\ UNCHANGED <<external, raw, externalItems, externalMap, aliasMap, itemsMap,
                 cur, resolved, calls, previous>>
  /\ UNCHANGED starVars

Next ==
  \/ BuildExternal
  \/ MergeResolved
  \/ MergeFallback
  \/ MergeTrackedOnly
  \/ Flatten

Spec == Init /\ [][Next]_vars

(* ------------------------------------------------ MediaPage called again *)
\* a later request renders the page again with the same two lists: the call
\* starts over, and its locals are created anew by BuildExternal
Rerender ==
  /\ pc = "done"
  /\ calls < MaxRerenders
  /\ calls' = calls + 1
  /\ previous' = items
  /\ pc' = "build"
  /\ cur' = 1
  /\ resolved' = <<>>
  /\ items' = <<>>
  /\ UNCHANGED <<external, raw, externalItems, externalMap, aliasMap, itemsMap>>
  /\ UNCHANGED starVars

ExternalPoolRerender == { m \in ExternalPool : m.mediaId # undefined }

TrackedPoolRerender == { u \in TrackedPool : u.id \in {"r1", "r2", "9", "r7", "r8"} }

InitRerender ==
  /\ external \in SeqsUpTo(ExternalPoolRerender, MaxExternal)
  /\ raw \in SeqsUpTo(TrackedPoolRerender, MaxTracked)
  /\ pc = "build"
  /\ externalItems = <<>>
  /\ externalMap = <<>>
  /\ aliasMap = <<>>
  /\ itemsMap = <<>>
  /\ cur = 1
  /\ resolved = <<>>
  /\ items = <<>>
  /\ calls = 0
  /\ previous = <<>>
  /\ StarUnmounted

NextRerender ==
  \/ BuildExternal
  \/ MergeResolved
  \/ MergeFallback
  \/ MergeTrackedOnly
  \/ Flatten
  \/ Rerender

SpecRerender == InitRerender /\ [][NextRerender]_vars

(* ------------------------------------------ malformed and null list entries *)
\* the callback of external.map reads m.mediaId of every entry: on the first
\* null entry it throws a TypeError that nothing in MediaPage catches; the
\* entries before it have already been put into externalMap and aliasMap
ExternalMapThrows ==
  /\ pc = "build"
  /\ \E i \in 1..Len(external) : external[i] = null
  /\ LET n == CHOOSE i \in 1..Len(external) :
                 external[i] = null /\ \A j \in 1..(i - 1) : external[j] # null
     IN /\ externalMap' = buildExternalMap(external, n - 1)
        /\ aliasMap' = buildAliasMap(external, n - 1)
  /\ pc' = "threw"
  /\ UNCHANGED <<external, raw, externalItems, itemsMap, cur, resolved, items,
                 calls, previous>>
  /\ UNCHANGED starVars

\* a tracked record with no media object
NoMedia == [id |-> "r0", status |-> "WATCHING", rating |-> Undef, media |-> null]

\* feeds and tracked lists that may hold null entries, records without a
\* media object and records without ids, title or releaseDate
ExternalPoolTotality == ExternalPool \cup {null}

TrackedPoolTotality ==
  { null,
    NoMedia,
    Ums("r1", "WATCHING", Undef, "7", undefined, Undef, "MOVIE", Undef),
    Ums("9", "COMPLETED", Num(1), undefined, undefined, Str(duneSpaced), "MOVIE", Str(d2021)),
    Ums(undefined, "COMPLETED", Undef, undefined, undefined, Undef, "MOVIE", Undef) }

InitTotality ==
  /\ external \in SeqsUpTo(ExternalPoolTotality, MaxExternal)
  /\ raw \in SeqsUpTo(TrackedPoolTotality, MaxTracked)
  /\ pc = "build"
  /\ externalItems = <<>>
  /\ externalMap = <<>>
  /\ aliasMap = <<>>
  /\ itemsMap = <<>>
  /\ cur = 1
  /\ resolved = <<>>
  /\ items = <<>>
  /\ calls = 0
  /\ previous = <<>>
  /\ StarUnmounted

NextTotality ==
  \/ BuildExternal
  \/ ExternalMapThrows
  \/ MergeResolved
  \/ MergeFallback
  \/ MergeTrackedOnly
  \/ Flatten

SpecTotality == InitTotality /\ [][NextTotality]_vars

(* ============================================================ StarRating *)
MaxChanges == 3

\* the stars are the buttons 1..5; the arrow keys clamp to that range
MinStar == 1
MaxStar == 5

\* ids the backend gives to status records
StatusIds == {"s1", "s2"}

\* no record on the backend
NoRecord == [id |-> nullId, rating |-> 0]

Min(a, b) == IF a <= b THEN a ELSE b
Max(a, b) == IF a >= b THEN a ELSE b

\* removing element i of a sequence
RemoveAt(q, i) == [j \in 1..(Len(q) - 1) |-> IF j < i THEN q[j] ELSE q[j + 1]]

\* variant of clearTimeout that leaves the timer pending
clearTimeout_noop(ts, id) == ts

\* clearTimeout(saveTimer.current): the timer with that id no longer fires
clearTimeout(ts, id) == { t \in ts : t.tid # id }

\* setTimeout(async () => { await doSave(n || null) ... }, 300): the callback
\* holds n and the doSave of the render it was created in, and with it that
\* render's statusId
newTimer(n) == [tid |-> changes + 1, n |-> n, sid |-> statusId]

\* the props the details page passes: value and statusId of the same record
InitialProps ==
  { [value |-> 0, sid |-> nullId],
    [value |-> 0, sid |-> "s1"],
    [value |-> 3, sid |-> "s1"] }

\* the record on the backend behind the props
InitialBackends(value, sid) ==
  IF sid # nullId THEN {[id |-> sid, rating |-> value]}
  ELSE {NoRecord, [id |-> "s1", rating |-> 0], [id |-> "s1", rating |-> 4]}

\* the mount effect fetches the status unless the props already carry it
FetchesOnMount(uid, value, sid) == uid # nullId /\ ~(sid # nullId \/ value > 0)

InitStar ==
  /\ external = <<>> /\ raw = <<>> /\ pc = "done"
  /\ externalItems = <<>> /\ externalMap = <<>> /\ aliasMap = <<>>
  /\ itemsMap = <<>> /\ cur = 1 /\ resolved = <<>> /\ items = <<>>
  /\ calls = 0 /\ previous = <<>>
  /\ userId \in {"u1", nullId}
  /\ disabled \in BOOLEAN
  /\ \E p \in InitialProps :
       /\ rating = p.value
       /\ prevRatingRef = p.value
       /\ statusId = p.sid
       /\ backend \in InitialBackends(p.value, p.sid)
       /\ loading = FetchesOnMount(userId, p.value, p.sid)
       /\ inflight = IF FetchesOnMount(userId, p.value, p.sid)
                       THEN <<[kind |-> "fetch", id |-> nullId, rating |-> 0]>>
                       ELSE <<>>
  /\ error = ""
  /\ saveTimer = 0
  /\ timers = {}
  /\ changes = 0
  /\ route = "media"

(* ---------------------------------------------------------- user actions *)
\* setAndSave(n): optimistic update, then a debounced save
setAndSave(n) ==
  /\ ~disabled
  /\ changes < MaxChanges
  /\ prevRatingRef' = rating
  /\ rating' = n
  /\ timers' = clearTimeout(timers, saveTimer) \cup {newTimer(n)}
  /\ saveTimer' = changes + 1
  /\ changes' = changes + 1
  /\ UNCHANGED <<userId, disabled, loading, statusId, error, inflight, backend, route>>
  /\ UNCHANGED pageVars

\* onClick of a star button, which is disabled={disabled || loading}
Click ==
  /\ ~(disabled \/ loading)
  /\ \E n \in MinStar..MaxStar : setAndSave(n)

\* onKeyDown of the radiogroup: handleKeyDown returns early only on
\* `disabled`, not on `loading`
handleKeyDown ==
  \E key \in {"ArrowRight", "ArrowUp", "ArrowLeft", "ArrowDown"} :
    IF key \in {"ArrowRight", "ArrowUp"}
      THEN setAndSave(Min(MaxStar, rating + 1))
      ELSE setAndSave(Max(MinStar, rating - 1))

\* onClick of Clear, which is disabled={disabled || loading || rating === 0}
clearRating ==
  /\ ~(disabled \/ loading \/ rating = 0)
  /\ changes < MaxChanges
  /\ prevRatingRef' = rating
  /\ rating' = 0
  /\ timers' = clearTimeout(timers, saveTimer) \cup {newTimer(0)}
  /\ saveTimer' = changes + 1
  /\ changes' = changes + 1
  /\ UNCHANGED <<userId, disabled, loading, statusId, error, inflight, backend, route>>
  /\ UNCHANGED pageVars

(* ------------------------------------------------- the debounce timer fires *)
\* the request doSave(newRating) sends from a render whose statusId was sid:
\* a delete of sid for a rating of 0, an upsert carrying sid otherwise
requestOf(n, sid) ==
  IF n = 0 THEN [kind |-> "delete", id |-> sid, rating |-> 0]
           ELSE [kind |-> "upsert", id |-> sid, rating |-> n]

\* the timer callback runs doSave(n || null) up to its first await
TimerFires ==
  \E t \in timers :
    /\ timers' = timers \ {t}
    /\ IF userId = nullId
         THEN /\ route' = "/login"
              /\ UNCHANGED <<loading, inflight>>
         ELSE IF t.n = 0 /\ t.sid = nullId
           THEN UNCHANGED <<loading, inflight, route>>
           ELSE /\ loading' = TRUE
                /\ inflight' = Append(inflight, requestOf(t.n, t.sid))
                /\ UNCHANGED route
    /\ UNCHANGED <<userId, disabled, rating, statusId, error, saveTimer,
                   prevRatingRef, backend, changes>>
    /\ UNCHANGED pageVars

(* ------------------------------------------------------ the backend answers *)
\* uppsertMediaStatus resolves: the record is saved under the id sent, or a
\* new id when none was sent; the response may or may not carry the id
UpsertSucceeds ==
  \E i \in 1..Len(inflight) : \E newId \in StatusIds : \E withId \in BOOLEAN :
    /\ inflight[i].kind = "upsert"
    /\ inflight[i].id # nullId => newId = inflight[i].id
    /\ backend' = [id |-> newId, rating |-> inflight[i].rating]
    /\ statusId' = IF withId THEN newId ELSE statusId
    /\ loading' = FALSE
    /\ inflight' = RemoveAt(inflight, i)
    /\ UNCHANGED <<userId, disabled, rating, error, saveTimer, prevRatingRef,
                   timers, changes, route>>
    /\ UNCHANGED pageVars

\* deleteMediaStatus resolves: the record with that id is gone
DeleteSucceeds ==
  \E i \in 1..Len(inflight) :
    /\ inflight[i].kind = "delete"
    /\ backend.id = inflight[i].id
    /\ backend' = NoRecord
    /\ statusId' = nullId
    /\ loading' = FALSE
    /\ inflight' = RemoveAt(inflight, i)
    /\ UNCHANGED <<userId, disabled, rating, error, saveTimer, prevRatingRef,
                   timers, changes, route>>
    /\ UNCHANGED pageVars

\* either write rejects: pushError, rethrow, and the timer callback's catch
\* rolls the rating back to prevRatingRef.current
SaveFails ==
  \E i \in 1..Len(inflight) :
    /\ inflight[i].kind \in {"upsert", "delete"}
    /\ error' = IF inflight[i].kind = "upsert"
                  THEN "Failed to save rating" ELSE "Failed to clear rating"
    /\ rating' = prevRatingRef
    /\ loading' = FALSE
    /\ inflight' = RemoveAt(inflight, i)
    /\ UNCHANGED <<userId, disabled, statusId, saveTimer, prevRatingRef, timers,
                   backend, changes, route>>
    /\ UNCHANGED pageVars

\* getStatus resolves with the backend's record, or with nothing
FetchSucceeds ==
  \E i \in 1..Len(inflight) :
    /\ inflight[i].kind = "fetch"
    /\ rating' = backend.rating
    /\ statusId' = IF backend.id # nullId THEN backend.id ELSE statusId
    /\ loading' = FALSE
    /\ inflight' = RemoveAt(inflight, i)
    /\ UNCHANGED <<userId, disabled, error, saveTimer, prevRatingRef, timers,
                   backend, changes, route>>
    /\ UNCHANGED pageVars

\* getStatus rejects: the catch only logs
FetchFails ==
  \E i \in 1..Len(inflight) :
    /\ inflight[i].kind = "fetch"
    /\ loading' = FALSE
    /\ inflight' = RemoveAt(inflight, i)
    /\ UNCHANGED <<userId, disabled, rating, statusId, error, saveTimer,
                   prevRatingRef, timers, backend, changes, route>>
    /\ UNCHANGED pageVars

\* the 3500 ms timer of pushError clears the alert
ErrorExpires ==
  /\ error # ""
  /\ error' = ""
  /\ UNCHANGED <<userId, disabled, rating, loading, statusId, saveTimer,
                 prevRatingRef, timers, inflight, backend, changes, route>>
  /\ UNCHANGED pageVars

NextStar ==
  \/ Click
  \/ handleKeyDown
  \/ clearRating
  \/ TimerFires
  \/ UpsertSucceeds
  \/ DeleteSucceeds
  \/ SaveFails
  \/ FetchSucceeds
  \/ FetchFails
  \/ ErrorExpires

SpecStar == InitStar /\ [][NextStar]_vars

(* ================================================================ claims *)
\* ids of the external items, and the output positions holding a given id
ExtIds == { externalItems[j].id : j \in 1..Len(externalItems) }
PositionsOf(id) == { i \in 1..Len(items) : items[i].id = id }

\* C1: no duplicates - the ids of the entries of the output list are
\* pairwise distinct, for every external list and every tracked list.
C1_NoDuplicates ==
  pc = "done" =>
    \A i, j \in 1..Len(items) : i # j => items[i].id # items[j].id

\* C2: completeness - every external item and every tracked record of the
\* page's type is represented by exactly one output entry; the entry of an
\* external item still carries that item's data, and no record disappears.
C2_Completeness ==
  pc = "done" =>
    /\ \A j \in 1..Len(external) :
         LET it == externalItem(external[j]) IN
           /\ Cardinality(PositionsOf(it.id)) = 1
           /\ \A i \in PositionsOf(it.id) :
                /\ items[i].title = it.title
                /\ items[i].year = it.year
                /\ items[i].coverUrl = it.coverUrl
    /\ \A k \in 1..Len(byWantedType) :
         Cardinality(PositionsOf(resolved[k].key)) = 1

\* C3: order preservation - external-derived entries keep the order of the
\* external input, every entry made by the tracked-only branch comes after
\* all entries of external items, and tracked-only entries are in the order
\* in which their records were first met.
C3_OrderPreservation ==
  pc = "done" =>
    /\ SelectSeq([i \in 1..Len(items) |-> items[i].id], LAMBDA id : id \in ExtIds)
         = [j \in 1..Len(externalItems) |-> externalItems[j].id]
    /\ \A k \in 1..Len(resolved) :
         resolved[k].rule = 6 =>
           \A i \in PositionsOf(resolved[k].key) :
             \A i2 \in 1..Len(items) :
               (items[i2].id \in ExtIds /\ items[i2].id # resolved[k].key) => i2 < i
    /\ \A k1, k2 \in 1..Len(resolved) :
         ( /\ resolved[k1].rule = 6
           /\ resolved[k2].rule = 6
           /\ k1 < k2
           /\ resolved[k1].key # resolved[k2].key
           /\ \A k \in 1..(k2 - 1) : resolved[k].key # resolved[k2].key )
         => \A i1 \in PositionsOf(resolved[k1].key) :
              \A i2 \in PositionsOf(resolved[k2].key) : i1 < i2

\* a step of the merge loop: the record at `cur` is being processed
MergeStep == pc = "merge" /\ cur <= Len(byWantedType) /\ cur' = cur + 1

\* all entries of the entry map other than the one at key are left as they were
OthersUnchanged(key) ==
  \A i \in 1..Len(itemsMap) :
    itemsMap[i].k # key => (i <= Len(itemsMap') /\ itemsMap'[i] = itemsMap[i])

\* C4: identity priority - a record whose internal id is the canonical id of
\* an external item is merged into that item (rule 1), whatever other
\* external item matches it by title and year; the title/year fallback and
\* the tracked-only branch are reached only when neither identifier is a key
\* of the entry map or of the alias map.
C4_IdentityPriority ==
  [][ MergeStep =>
        LET mId == ums.media.mediaId
            eId == ums.media.externalMediaId
        IN /\ (mId # undefined /\ mId \in ExtIds) =>
                /\ resolved'[cur] = [rule |-> 1, key |-> mId]
                /\ MapHas(itemsMap', mId)
                /\ MapGet(itemsMap', mId).status = ums.status
                /\ MapGet(itemsMap', mId).href = <<"movie", mId>>
                /\ Len(itemsMap') = Len(itemsMap)
                /\ OthersUnchanged(mId)
           /\ resolved'[cur].rule \in {5, 6} =>
                /\ mId # undefined => ~MapHas(itemsMap, mId) /\ ~MapHas(aliasMap, mId)
                /\ eId # undefined => ~MapHas(itemsMap, eId) /\ ~MapHas(aliasMap, eId)
    ]_vars

\* witness of C4: a record was merged by its internal id although another
\* external item matches it by title and year
C4_Witness ==
  /\ pc = "done"
  /\ \E k \in 1..Len(byWantedType) :
       LET u == byWantedType[k] IN
         /\ u.media.mediaId \in ExtIds
         /\ resolved[k] = [rule |-> 1, key |-> u.media.mediaId]
         /\ \E j \in 1..Len(externalItems) :
              /\ externalItems[j].id # u.media.mediaId
              /\ fallbackMatches(externalItems[j], titleKeyOf(u), yearKeyOf(u))
         /\ \E i \in 1..Len(items) :
              items[i].id = u.media.mediaId /\ items[i].status = u.status

\* C5: identifier resolution order - the canonical id of a record is given by
\* the first applicable rule among (1) internal id is a key of the entry map,
\* (2) external id is a key of the alias map, (3) external id is a key of the
\* entry map, (4) internal id is a key of the alias map; the record is merged
\* onto the entry of that id.
C5_ResolutionOrder ==
  [][ MergeStep =>
        LET mId == ums.media.mediaId
            eId == ums.media.externalMediaId
            r == resolved'[cur]
            mergedOnto(key) ==
              /\ r.key = key
              /\ MapHas(itemsMap', key)
              /\ MapGet(itemsMap', key).status = ums.status
              /\ Len(itemsMap') = Len(itemsMap)
              /\ OthersUnchanged(key)
        IN IF mId # undefined /\ MapHas(itemsMap, mId)
             THEN r.rule = 1 /\ mergedOnto(mId)
           ELSE IF eId # undefined /\ MapHas(aliasMap, eId)
             THEN r.rule = 2 /\ mergedOnto(MapGet(aliasMap, eId))
           ELSE IF eId # undefined /\ MapHas(itemsMap, eId)
             THEN r.rule = 3 /\ mergedOnto(eId)
           ELSE IF mId # undefined /\ MapHas(aliasMap, mId)
             THEN r.rule = 4 /\ mergedOnto(MapGet(aliasMap, mId))
           ELSE r.rule \in {5, 6}
    ]_vars

\* witness of C5: in one run, a record whose internal id is an entry id and
\* whose external id aliases to another id got the internal id, and a record
\* whose external id is both an entry id and an alias of another id got the
\* alias target
C5_Witness ==
  /\ pc = "done"
  /\ \E k \in 1..Len(byWantedType) :
       LET u == byWantedType[k] IN
         /\ resolved[k] = [rule |-> 1, key |-> u.media.mediaId]
         /\ MapHas(buildAliasMap(external, Len(external)), u.media.externalMediaId)
         /\ MapGet(buildAliasMap(external, Len(external)), u.media.externalMediaId)
              # u.media.mediaId
  /\ \E k \in 1..Len(byWantedType) :
       LET u == byWantedType[k] IN
         /\ resolved[k].rule = 2
         /\ u.media.externalMediaId \in ExtIds
         /\ resolved[k].key # u.media.externalMediaId

\* no identifier of the record at `cur` is a key of the entry map or alias map
NoIdentifierRule ==
  /\ ums.media.mediaId # undefined =>
       ~MapHas(itemsMap, ums.media.mediaId) /\ ~MapHas(aliasMap, ums.media.mediaId)
  /\ ums.media.externalMediaId # undefined =>
       /\ ~MapHas(itemsMap, ums.media.externalMediaId)
       /\ ~MapHas(aliasMap, ums.media.externalMediaId)

\* trimmed lower-cased title of a tagged text (empty when absent)
NormTitle(title) == IF title.t = "str" THEN ToLowerCase(Trim(title.s)) ELSE <<>>

\* the year of a record as text: the leading four characters of its date
DateYearText(date) == IF date.t = "str" /\ date.s # <<>> THEN Slice4(date.s) ELSE <<>>

\* the date is present and its leading four characters are not a number
Malformed(date) == date.t = "str" /\ date.s # <<>> /\ Number(Slice4(date.s)).t = "nan"

\* external item it and the record at `cur` have equal non-empty titles
SameTitle(it) == NormTitle(ums.media.title) # <<>> /\ NormTitle(it.title) = NormTitle(ums.media.title)

\* ... and their years are equal whenever both have one
SameTitleAndYear(it) ==
  /\ SameTitle(it)
  /\ \/ DateYearText(ums.media.releaseDate) = <<>>
     \/ it.year.t = "undef"
     \/ it.year.s = DateYearText(ums.media.releaseDate)

\* C6: fallback match rule - a record that no identifier rule resolves is
\* merged into the first external item, in external-list order, with the same
\* trimmed lower-cased non-empty title and, when both have a year, the same
\* year; when no external item matches, the record becomes a tracked-only entry.
C6_FallbackFirstMatch ==
  [][ (MergeStep /\ NoIdentifierRule) =>
        LET hits == { j \in 1..Len(externalItems) : SameTitleAndYear(externalItems[j]) }
        IN IF hits # {}
             THEN LET first == CHOOSE j \in hits : \A j2 \in hits : j <= j2 IN
                    /\ resolved'[cur] = [rule |-> 5, key |-> externalItems[first].id]
                    /\ MapGet(itemsMap', externalItems[first].id).status = ums.status
             ELSE resolved'[cur].rule = 6
    ]_vars

\* C7 as stated: malformed dates are wildcards - a record with a malformed
\* releaseDate matches an external item of equal title whatever year that item
\* has, and an external item with a malformed releaseDate never blocks a
\* title match.
C7_MalformedIsWildcard ==
  [][ (MergeStep /\ NoIdentifierRule) =>
        /\ (Malformed(ums.media.releaseDate)
             /\ \E i \in 1..Len(externalMap) : SameTitle(externalMap[i].v))
           => resolved'[cur].rule = 5
        /\ (\E i \in 1..Len(externalMap) :
              /\ SameTitle(externalMap[i].v)
              /\ Malformed(externalMap[i].v.year))
           => resolved'[cur].rule = 5
    ]_vars

\* C7 as the code has it: a malformed date is not a wildcard. The year key of
\* a record with a malformed releaseDate is the date's leading four
\* characters and the year of an external item is the leading four characters
\* of its releaseDate; a record with a malformed date or facing only
\* equal-titled external items with malformed dates is matched exactly when
\* some equal-titled external item has no year, the record has no date, or the
\* two four-character texts are equal.
C7_MalformedComparedAsText ==
  [][ (MergeStep /\ NoIdentifierRule) =>
        LET sameTitle == { i \in 1..Len(externalMap) : SameTitle(externalMap[i].v) }
            compatible == { i \in sameTitle :
                              \/ ums.media.releaseDate.t = "undef"
                              \/ externalMap[i].v.year.t = "undef"
                              \/ externalMap[i].v.year.s = Slice4(ums.media.releaseDate.s) }
        IN ( \/ Malformed(ums.media.releaseDate)
             \/ (sameTitle # {} /\ \A i \in sameTitle : Malformed(externalMap[i].v.year)) )
           => /\ resolved'[cur].rule = 5 <=> compatible # {}
              /\ resolved'[cur].rule = 6 <=> compatible = {}
    ]_vars

\* witness of C7: a record with a malformed date met an external item of the
\* same title with a well-formed year and was not matched, and (in another
\* position of the same run or the same record) a well-dated record met an
\* equal-titled external item with a malformed date and was not matched
C7_Witness ==
  /\ pc = "done"
  /\ \E k \in 1..Len(byWantedType) :
       LET u == byWantedType[k] IN
         /\ resolved[k].rule = 6
         /\ Malformed(u.media.releaseDate)
         /\ \E i \in 1..Len(externalMap) :
              /\ NormTitle(externalMap[i].v.title) = NormTitle(u.media.title)
              /\ externalMap[i].v.year.t = "str"
              /\ ~Malformed(externalMap[i].v.year)
  /\ \E k \in 1..Len(byWantedType) :
       LET u == byWantedType[k] IN
         /\ resolved[k].rule = 6
         /\ toYear(u.media.releaseDate).t = "num"
         /\ \E i \in 1..Len(externalMap) :
              /\ NormTitle(externalMap[i].v.title) = NormTitle(u.media.title)
              /\ Malformed(externalMap[i].v.year)

\* the navigation target built from a record's own type and id
RecordHref(u) ==
  <<LowerType(u.media.type),
    IF u.media.mediaId # undefined THEN u.media.mediaId ELSE StringId(u.id)>>

\* C8 as stated: merge effect - when a record resolves (cases 1-5) to the id
\* c of an external item, the entry for c gets the record's status, the
\* record's rating if it has one and otherwise the external item's rating,
\* and the href of the record; id, title, year and coverUrl stay those of the
\* external item.
C8_MergeEffectFromExternal ==
  [][ (MergeStep /\ resolved'[cur].rule \in 1..5 /\ MapHas(externalMap, resolved'[cur].key)) =>
        LET c == resolved'[cur].key
            e == MapGet(itemsMap', c)
            x == MapGet(externalMap, c)
        IN /\ e.status = ums.status
           /\ e.rating = IF ums.rating.t # "undef" THEN ums.rating ELSE x.rating
           /\ e.href = RecordHref(ums)
           /\ e.id = x.id /\ e.title = x.title /\ e.year = x.year /\ e.coverUrl = x.coverUrl
    ]_vars

\* C8 amended: when a record resolves (cases 1-5) to canonical id c, the
\* entry for c gets the record's status, the record's rating if it has one
\* and otherwise the rating the entry for c had before the merge, and the
\* href of the record; id, title, year, coverUrl and type stay those the
\* entry had before the merge - which are the external item's when c is an
\* external id whose entry no earlier record has written.
C8_MergeEffect ==
  [][ (MergeStep /\ resolved'[cur].rule \in 1..5) =>
        LET c == resolved'[cur].key
            e == MapGet(itemsMap', c)
            b == MapGet(itemsMap, c)
        IN /\ MapHas(itemsMap, c)
           /\ e.status = ums.status
           /\ e.rating = IF ums.rating.t # "undef" THEN ums.rating ELSE b.rating
           /\ e.href = RecordHref(ums)
           /\ e.id = b.id /\ e.title = b.title /\ e.year = b.year
           /\ e.coverUrl = b.coverUrl /\ e.type = b.type
           /\ (MapHas(externalMap, c) /\ \A k \in 1..(cur - 1) : resolved[k].key # c)
                => b = MapGet(externalMap, c)
    ]_vars

\* witness of C8: a record without a rating was merged onto the untouched
\* entry of a rated external item, and the output shows the record's status
\* with the external rating, title and year
C8_Witness ==
  /\ pc = "done"
  /\ Len(byWantedType) = 1
  /\ resolved[1].rule \in 1..5
  /\ byWantedType[1].rating.t = "undef"
  /\ \E i \in 1..Len(items) :
       /\ items[i].id = resolved[1].key
       /\ items[i].status = byWantedType[1].status
       /\ items[i].rating.t = "num"
       /\ items[i].rating = MapGet(externalMap, resolved[1].key).rating
       /\ items[i].title = MapGet(externalMap, resolved[1].key).title
       /\ items[i].href = RecordHref(byWantedType[1])

\* C9: tracked-only entries - a record resolved by no identifier rule and no
\* fallback match produces an entry whose id is the record's internal id if
\* present, else its external id, else its row id, with the record's status
\* and rating; with an empty external list a single record {mediaId m,
\* status s} gives an output of exactly one entry, with id m and status s.
C9_TrackedOnly ==
  [][ /\ (MergeStep /\ resolved'[cur].rule = 6) =>
           LET expected == IF ums.media.mediaId # undefined THEN ums.media.mediaId
                           ELSE IF ums.media.externalMediaId # undefined
                             THEN ums.media.externalMediaId
                           ELSE StringId(ums.id)
           IN /\ resolved'[cur].key = expected
              /\ MapHas(itemsMap', expected)
              /\ MapGet(itemsMap', expected).id = expected
              /\ MapGet(itemsMap', expected).status = ums.status
              /\ MapGet(itemsMap', expected).rating = ums.rating
      /\ ( /\ pc = "merge" /\ pc' = "done"
           /\ external = <<>>
           /\ Len(raw) = 1 /\ Len(byWantedType) = 1
           /\ raw[1].media.mediaId # undefined )
         => /\ Len(items') = 1
            /\ items'[1].id = raw[1].media.mediaId
            /\ items'[1].status = raw[1].status
    ]_vars

\* witness of C9: the empty-feed scenario has run to its output
C9_Witness ==
  /\ pc = "done"
  /\ external = <<>>
  /\ Len(raw) = 1 /\ Len(byWantedType) = 1
  /\ raw[1].media.mediaId # undefined
  /\ resolved[1].rule = 6
  /\ Len(items) = 1

\* the identifiers a record carries
IdsOf(u) == {u.media.mediaId, u.media.externalMediaId} \ {undefined}

\* every identifier of record u maps to key in alias map am
AliasesPointTo(am, u, key) == \A x \in IdsOf(u) : MapHas(am, x) /\ MapGet(am, x) = key

\* C10 as stated: alias registration - after a record is matched via case 3,
\* 4 or 5 each of its identifiers maps to the matched id in the alias map,
\* and any later record that shares one of those identifiers resolves via
\* case 1 or case 2 to that same id.
C10_AliasThenCase1or2 ==
  /\ [][ (MergeStep /\ resolved'[cur].rule \in 3..5) =>
           AliasesPointTo(aliasMap', ums, resolved'[cur].key) ]_vars
  /\ [](\A k, j \in 1..Len(resolved) :
          ( /\ k < j
            /\ resolved[k].rule \in 3..5
            /\ IdsOf(byWantedType[j]) \cap IdsOf(byWantedType[k]) # {} )
          => /\ resolved[j].rule \in {1, 2}
             /\ resolved[j].key = resolved[k].key)

\* C10 amended: after a record is matched via case 3, 4 or 5 each of its
\* identifiers maps to the matched id in the alias map; a later record whose
\* only identifier is one of those, with no record in between that carries
\* that identifier (as internal, external or row id), resolves by an
\* identifier rule - case 2 for an external id, case 1 or 4 for an internal
\* id - to that same id.
C10_AliasRegistration ==
  /\ [][ (MergeStep /\ resolved'[cur].rule \in 3..5) =>
           AliasesPointTo(aliasMap', ums, resolved'[cur].key) ]_vars
  /\ [](\A k, j \in 1..Len(resolved) :
          ( /\ k < j
            /\ resolved[k].rule \in 3..5
            /\ Cardinality(IdsOf(byWantedType[j])) = 1
            /\ IdsOf(byWantedType[j]) \subseteq IdsOf(byWantedType[k])
            /\ \A b \in (k + 1)..(j - 1) :
                 IdsOf(byWantedType[j]) \cap (IdsOf(byWantedType[b]) \cup {StringId(byWantedType[b].id)}) = {} )
          => /\ resolved[j].key = resolved[k].key
             /\ resolved[j].rule = IF byWantedType[j].media.externalMediaId # undefined THEN 2
                                   ELSE IF byWantedType[j].media.mediaId = resolved[k].key THEN 1
                                   ELSE 4)

\* witness of C10: a record matched by the fallback registered its ids and
\* the next record, carrying only its internal id, resolved through the
\* alias map (case 4) to the same id
C10_Witness ==
  /\ pc = "done"
  /\ Len(resolved) >= 2
  /\ resolved[1].rule = 5
  /\ resolved[2] = [rule |-> 4, key |-> resolved[1].key]
  /\ IdsOf(byWantedType[2]) = {byWantedType[1].media.mediaId}
  /\ AliasesPointTo(aliasMap, byWantedType[1], resolved[1].key)

\* the external items, as held in externalMap, that the title/year fallback
\* accepts for the record at `cur`
FallbackHits == { i \in 1..Len(externalMap) : SameTitleAndYear(externalMap[i].v) }

\* the external item at position i of externalMap has been claimed: an
\* earlier record was merged into it
Claimed(i) ==
  \E k \in 1..Len(resolved) : resolved[k].rule \in 1..5 /\ resolved[k].key = externalMap[i].k

\* C11 as stated: claimed external items are not reconsidered - a record that
\* no identifier rule resolves and whose fallback matches only external items
\* already claimed by earlier records is not merged but becomes its own
\* tracked-only entry.
C11_ClaimedNotReconsidered ==
  [][ (MergeStep /\ NoIdentifierRule /\ FallbackHits # {} /\ \A i \in FallbackHits : Claimed(i))
        => resolved'[cur].rule = 6
    ]_vars

\* C11 amended: claimed external items stay eligible - a record that no
\* identifier rule resolves and whose fallback matches only external items
\* already claimed by earlier records is merged (case 5) into the first of
\* them in externalMap order, replacing the status the earlier record put
\* there, and no tracked-only entry is added.
C11_ClaimedStillMatched ==
  [][ (MergeStep /\ NoIdentifierRule /\ FallbackHits # {} /\ \A i \in FallbackHits : Claimed(i))
        => LET first == CHOOSE i \in FallbackHits : \A j \in FallbackHits : i <= j IN
             /\ resolved'[cur] = [rule |-> 5, key |-> externalMap[first].k]
             /\ MapGet(itemsMap', externalMap[first].k).status = ums.status
             /\ MapGet(itemsMap', externalMap[first].k).href = RecordHref(ums)
             /\ Len(itemsMap') = Len(itemsMap)
    ]_vars

\* witness of C11: two records were merged one after the other into the same
\* external item, the second by the fallback, and the output shows the
\* second record's status on it
C11_Witness ==
  /\ pc = "done"
  /\ Len(resolved) = 2
  /\ resolved[1].rule \in 1..5
  /\ resolved[2] = [rule |-> 5, key |-> resolved[1].key]
  /\ byWantedType[1].status # byWantedType[2].status
  /\ \E i \in 1..Len(items) :
       items[i].id = resolved[2].key /\ items[i].status = byWantedType[2].status

\* C14: the id synthesized for a tracked-only record (case 6) never equals
\* the canonical id of an external item, and so after every tracked record
\* has been processed each external item's entry still carries that external
\* item's title, year and coverUrl.
C14_SynthesizedIdIsFresh ==
  /\ \A k \in 1..Len(resolved) :
       resolved[k].rule = 6 => resolved[k].key \notin ExtIds
  /\ pc = "done" =>
       \A j \in 1..Len(externalItems) :
         LET it == MapGet(externalMap, externalItems[j].id)
             entry == MapGet(itemsMap, externalItems[j].id) IN
           /\ entry.title = it.title
           /\ entry.year = it.year
           /\ entry.coverUrl = it.coverUrl

\* the tracked records, by position in byWantedType, that resolved to id c
ResolvedTo(c) == { k \in 1..Len(resolved) : resolved[k].key = c }

\* the rating the last writer rule predicts for id c: that of the last record
\* resolved to c that has one, else the external item's
LastRating(c) ==
  LET rated == { k \in ResolvedTo(c) : byWantedType[k].rating.t # "undef" } IN
    IF rated # {}
      THEN byWantedType[CHOOSE k \in rated : \A k2 \in rated : k2 <= k].rating
      ELSE IF MapHas(externalMap, c) THEN MapGet(externalMap, c).rating ELSE Undef

\* C15: last writer wins - when two or more tracked records resolve to the
\* same canonical id, the output has a single entry for that id, with the
\* status and href of the last such record in tracked-list order and the
\* rating of the last such record that has a rating, else the external
\* item's rating.
C15_LastWriterWins ==
  pc = "done" =>
    \A k1, k2 \in 1..Len(resolved) :
      (k1 < k2 /\ resolved[k1].key = resolved[k2].key /\ resolved[k2].rule \in 1..5) =>
        LET c == resolved[k1].key
            last == CHOOSE k \in ResolvedTo(c) : \A k3 \in ResolvedTo(c) : k3 <= k
        IN /\ Cardinality(PositionsOf(c)) = 1
           /\ \A i \in PositionsOf(c) :
                /\ items[i].status = byWantedType[last].status
                /\ items[i].href = RecordHref(byWantedType[last])
                /\ items[i].rating = LastRating(c)

\* C12: totality - the reconciliation never throws, for any external list
\* and any tracked list, including entries with no id fields, no title, no
\* releaseDate, no media object, or null entries.
C12_NeverThrows == pc # "threw"

\* C13: idempotence - reconciling the same external list and the same
\* tracked list again yields the same output list (same entries, same order,
\* same field values): the alias map and the entry map are rebuilt by each
\* call and nothing carries over from the call before.
C13_Idempotence ==
  (pc = "done" /\ calls >= 1) => items = previous

\* witness of C13: a second call has returned, after processing two tracked
\* records of which one was merged by the fallback and one became a
\* tracked-only entry
C13_Witness ==
  /\ pc = "done"
  /\ calls >= 1
  /\ Len(items) >= 2
  /\ \E k \in 1..Len(resolved) : resolved[k].rule = 5
  /\ \E k \in 1..Len(resolved) : resolved[k].rule = 6

\* the writes (upserts and deletes) that doSave has sent and that are not
\* yet answered
WritesInFlight == { i \in 1..Len(inflight) : inflight[i].kind \in {"upsert", "delete"} }

\* C16: StarRating issues at most one backend write at a time - while an
\* upsert or delete started by doSave is in flight, no star click, arrow key
\* or Clear starts a second doSave, so two writes are never outstanding
\* together.
C16_OneWriteAtATime == Cardinality(WritesInFlight) <= 1

\* the widget is idle: no debounce timer is pending and no request is in
\* flight
Idle == timers = {} /\ inflight = <<>>

\* C17: for a logged-in user, whenever no debounce timer is pending and no
\* request is in flight, the rating shown equals the rating last
\* successfully persisted on the backend (0 when no record exists).
C17_ShownIsPersisted ==
  (userId # nullId /\ Idle) => rating = backend.rating

\* a step in which the user changes the rating (star, arrow key or Clear)
ChangeStep == changes' = changes + 1

\* a step in which debounce timer t fires
FireStep(t) == t \in timers /\ timers' = timers \ {t} /\ changes' = changes

\* C18: debounce - when the rating is changed again before the previous
\* change's timer has fired, that timer is cancelled: after every change
\* exactly one timer is pending and it holds the value just chosen, and a
\* timer that fires is that of the last change and the one save it attempts
\* carries its value, so no intermediate value is sent.
C18_Debounce ==
  [][ /\ ChangeStep => timers' = {[tid |-> changes', n |-> rating', sid |-> statusId]}
      /\ \A t \in timers : FireStep(t) =>
           /\ t.tid = changes
           /\ timers' = {}
           /\ \/ inflight' = inflight
              \/ /\ inflight' = Append(inflight, inflight'[Len(inflight')])
                 /\ inflight'[Len(inflight')].rating = t.n
    ]_vars

\* witness of C18: two changes were made in quick succession (3 -> another
\* value -> another), and the only request sent since carries the last
\* value; the intermediate value, kept in prevRatingRef, reached nobody
C18_Witness ==
  /\ changes = 2
  /\ timers = {}
  /\ Len(inflight) = 1
  /\ inflight[1].kind = "upsert"
  /\ inflight[1].rating = rating
  /\ backend.rating = 3
  /\ error = ""
  /\ prevRatingRef \notin {rating, backend.rating}

\* C19: a save with rating 0 sends a delete only when a statusId is known,
\* for that id, and sends nothing otherwise; a successful delete leaves
\* statusId null, a successful upsert that returns an id leaves statusId at
\* that id, and every save carries the statusId the widget holds when the
\* save is made - so the first non-zero rating after a delete is an upsert
\* with id null, and saves after an upsert carry the id it returned.
C19_SavesCarryCurrentStatusId ==
  [][ /\ \A t \in timers : (FireStep(t) /\ userId # nullId) =>
           IF t.n = 0 /\ statusId = nullId
             THEN inflight' = inflight
             ELSE inflight' = Append(inflight, requestOf(t.n, statusId))
      /\ (backend # NoRecord /\ backend' = NoRecord) => statusId' = nullId
      /\ (\E i \in 1..Len(inflight) :
            inflight[i].kind = "upsert" /\ inflight' = RemoveAt(inflight, i))
           => statusId' \in {statusId, backend'.id}
    ]_vars

====
